---- MODULE Spec2Model ----
(***************************************************************************)
(* Model of the CHDT tempo classifiers.                                    *)
(*                                                                         *)
(*   bpm_classifier.py      audio variant: download, analyze_bpm, classify *)
(*   spotify_classifier.py  metadata-API variant: search, audio_features   *)
(*                                                                         *)
(* The specifications share the variables:                                 *)
(*   Spec          the application: UI thread (start, stop, _done) and the *)
(*                 worker thread running run_classifier, one action per    *)
(*                 statement group of the descriptor loop;                 *)
(*   SpecEst       analyze_bpm, one action per step of the estimator       *)
(*   FairSpecEst   SpecEst with the estimator's steps weakly fair          *)
(*   SpecClassify  classify_bpm applied to a range of BPM values.          *)
(*                                                                         *)
(* BPM values returned by analyze_bpm / round(tempo, 1) have one decimal;  *)
(* the application model keeps them as integers in tenths of a BPM.        *)
(***************************************************************************)
EXTENDS Integers, Sequences, FiniteSets, TLC

\* ------------------------------------------------------------------------
\* Bounds of the model
\* ------------------------------------------------------------------------
\* capacity of each bucket (BUCKET_SIZE is 20 in the source; the model
\* scales the configurable capacity down)
BUCKET_SIZE == 1

\* largest number of rows of board.csv
MaxRows == 4

\* ------------------------------------------------------------------------
\* Program constants
\* ------------------------------------------------------------------------
BPM_SLOW_MAX == 100

BPM_MED_MAX == 140

BucketNames == <<"BLUE", "GREEN", "RED">>

Colors == {"BLUE", "GREEN", "RED"}

\* restval of csv.DictReader: the value of a cell missing from a short row
NoneCell == "<None>"

\* no estimate: analyze_bpm returned None / nothing assigned yet
NoBpm == -1

\* x BPM in tenths
Tenths(x) == x * 10

\* ------------------------------------------------------------------------
\* State
\* ------------------------------------------------------------------------
VARIABLES
    variant,       \* "audio" (bpm_classifier.py) or "api" (spotify_classifier.py)
    running,       \* self.running
    stop_flag,     \* self.stop_flag
    start_btn,     \* state of self.start_btn
    stop_btn,      \* state of self.stop_btn
    buckets,       \* self.buckets[c]["songs"], c in Colors
    done_pending,  \* a _done callback is queued with root.after and not yet run
    pc,            \* position of the worker thread in run_classifier
    nrows,         \* len(rows)
    idx,           \* loop index of enumerate(rows, 1); 0 before the first row
    row,           \* the row of the current iteration
    scratch,       \* temp_dir of the iteration: "nodir", "empty" or "file"
    leaked,        \* some earlier temp_dir was left behind on disk
    audio_file,    \* local audio_file is a path (TRUE) or None (FALSE)
    bpm,           \* local bpm (tenths), NoBpm when unset
    bucketed,      \* local bucketed
    saved,         \* number of save_bucket_csv calls completed in this run
    tables,        \* the output table of each bucket on disk: absent, left by
                   \* an earlier run ("old") or written by this run ("run")
    acquired,      \* idx of every acquisition call of this run, in call order
    analyzed,      \* idx of every estimation of this run, in call order
    endReason,     \* why the descriptor loop ended ("" while it has not)
    est,           \* state of one analyze_bpm call (SpecEst)
    cls            \* state of one classify_bpm call (SpecClassify)

ctlVars == <<variant, running, stop_flag, start_btn, stop_btn, buckets,
             done_pending, pc, nrows, idx, row, scratch, leaked, audio_file,
             bpm, bucketed, saved, tables, acquired, analyzed, endReason>>

vars == <<ctlVars, est, cls>>

\* ------------------------------------------------------------------------
\* Pure helpers
\* ------------------------------------------------------------------------
\* classify_bpm with "<" in place of "<=" at the upper cutoff (sensitivity
\* variant, not the program)
classify_bpm_strict(b) ==
    IF b < Tenths(BPM_SLOW_MAX) THEN "BLUE"
    ELSE IF b < Tenths(BPM_MED_MAX) THEN "GREEN"
    ELSE "RED"

\* classify_bpm: BLUE below BPM_SLOW_MAX, GREEN up to BPM_MED_MAX, RED above
classify_bpm(b) ==
    IF b < Tenths(BPM_SLOW_MAX) THEN "BLUE"
    ELSE IF b <= Tenths(BPM_MED_MAX) THEN "GREEN"
    ELSE "RED"

all_buckets_full ==
    \A c \in Colors : Len(buckets[c]) >= BUCKET_SIZE

\* capacity check with ">" in place of ">=" (sensitivity variant)
BucketFull_off(color) == Len(buckets[color]) > BUCKET_SIZE

\* len(bucket["songs"]) >= bucket["max"]
BucketFull(color) == Len(buckets[color]) >= BUCKET_SIZE

\* a loop that never looks at the stop flag (sensitivity variant)
StopRequested_never == FALSE

\* if self.stop_flag: (first statement of the loop body)
StopRequested == stop_flag

\* start() without the running guard (sensitivity variant)
CanStart_always == TRUE

\* if self.running: return (start)
CanStart == ~running

\* str.strip() on the cell values of the model
Strip(s) == IF s = " " THEN "" ELSE s

EmptyBuckets == [c \in Colors |-> <<>>]

\* no output table on disk / the table an earlier run left on disk
NoTable == [kind |-> "absent", rows |-> <<>>]

OldTable == [kind |-> "old", rows |-> <<>>]

\* estimates the estimator / the API can hand to the controller (tenths)
Estimates == {800, 1200, 1400, 1600}

\* the rows board.csv can hold: the audio variant reads the identifier
\* column, the API variant the identifier and the title
RowsOf(v) ==
    IF v = "audio"
    THEN [bv : {"BV1", "", " ", NoneCell}, title : {"t"}]
    ELSE [bv : {"BV1", "", NoneCell}, title : {"t", "", NoneCell}]

NoRow == [bv |-> "", title |-> ""]

\* ------------------------------------------------------------------------
\* Initial state: the application after __init__, no run started
\* ------------------------------------------------------------------------
EstIdle == [pc |-> "off"]

ClsIdle == [pc |-> "off"]

CtlInit ==
    /\ variant \in {"audio", "api"}
    /\ running = FALSE
    /\ stop_flag = FALSE
    /\ start_btn = "normal"
    /\ stop_btn = "disabled"
    /\ buckets = EmptyBuckets
    /\ done_pending = FALSE
    /\ pc = "none"
    /\ nrows = 0
    /\ idx = 0
    /\ row = NoRow
    /\ scratch = "nodir"
    /\ leaked = FALSE
    /\ audio_file = FALSE
    /\ bpm = NoBpm
    /\ bucketed = FALSE
    /\ saved = 0
    /\ tables = [c \in Colors |-> NoTable]
    /\ acquired = <<>>
    /\ analyzed = <<>>
    /\ endReason = ""

Init ==
    /\ CtlInit
    /\ est = EstIdle
    /\ cls = ClsIdle

\* ------------------------------------------------------------------------
\* UI thread
\* ------------------------------------------------------------------------
\* a start() that keeps the buckets and the stop flag of the run before
\* (sensitivity variant)
start_noreset ==
    /\ CanStart
    /\ running' = TRUE
    /\ stop_flag' = stop_flag
    /\ start_btn' = "disabled"
    /\ stop_btn' = "normal"
    /\ buckets' = buckets
    /\ pc' = "startup"
    /\ nrows' = 0
    /\ idx' = 0
    /\ row' = NoRow
    /\ audio_file' = FALSE
    /\ bpm' = NoBpm
    /\ bucketed' = FALSE
    /\ saved' = 0
    /\ tables' = [c \in Colors |-> IF tables[c].kind = "absent" THEN NoTable ELSE OldTable]
    /\ acquired' = <<>>
    /\ analyzed' = <<>>
    /\ endReason' = ""
    /\ UNCHANGED <<variant, done_pending, scratch, leaked, est, cls>>

\* start(): returns at once while running; otherwise resets the flags and the
\* buckets and spawns the worker thread.  The files of an earlier run stay on
\* disk; their content is not followed any further ("old").
start ==
    /\ CanStart
    /\ running' = TRUE
    /\ stop_flag' = FALSE
    /\ start_btn' = "disabled"
    /\ stop_btn' = "normal"
    /\ buckets' = EmptyBuckets
    /\ pc' = "startup"
    /\ nrows' = 0
    /\ idx' = 0
    /\ row' = NoRow
    /\ audio_file' = FALSE
    /\ bpm' = NoBpm
    /\ bucketed' = FALSE
    /\ saved' = 0
    /\ tables' = [c \in Colors |-> IF tables[c].kind = "absent" THEN NoTable ELSE OldTable]
    /\ acquired' = <<>>
    /\ analyzed' = <<>>
    /\ endReason' = ""
    /\ UNCHANGED <<variant, done_pending, scratch, leaked, est, cls>>

\* a stop() that also empties the buckets (sensitivity variant)
stop_clears ==
    /\ stop_btn = "normal"
    /\ stop_flag' = TRUE
    /\ stop_btn' = "disabled"
    /\ buckets' = EmptyBuckets
    /\ UNCHANGED <<variant, running, start_btn, done_pending, pc, nrows,
                   idx, row, scratch, leaked, audio_file, bpm, bucketed, saved,
                   tables, acquired, analyzed, endReason, est, cls>>

\* stop(): the stop button is only enabled between start() and _done / stop()
stop ==
    /\ stop_btn = "normal"
    /\ stop_flag' = TRUE
    /\ stop_btn' = "disabled"
    /\ UNCHANGED <<variant, running, start_btn, buckets, done_pending, pc, nrows,
                   idx, row, scratch, leaked, audio_file, bpm, bucketed, saved,
                   tables, acquired, analyzed, endReason, est, cls>>

\* the _done callback the worker queued with root.after(0, _done)
Done_callback ==
    /\ done_pending
    /\ done_pending' = FALSE
    /\ running' = FALSE
    /\ start_btn' = "normal"
    /\ stop_btn' = "disabled"
    /\ UNCHANGED <<variant, stop_flag, buckets, pc, nrows, idx, row, scratch,
                   leaked, audio_file, bpm, bucketed, saved, tables, acquired,
                   analyzed, endReason, est, cls>>

\* ------------------------------------------------------------------------
\* Worker thread: run_classifier
\* ------------------------------------------------------------------------
\* what no statement of the worker thread writes
WorkerFrame == UNCHANGED <<variant, running, stop_flag, start_btn, stop_btn, est, cls>>

\* start-up returns early: board.csv cannot be obtained (both variants),
\* credentials are missing or the API connection fails (API variant)
startup_return ==
    /\ pc = "startup"
    /\ done_pending' = TRUE
    /\ pc' = "none"
    /\ WorkerFrame
    /\ UNCHANGED <<buckets, nrows, idx, row, scratch, leaked, audio_file, bpm,
                   bucketed, saved, tables, acquired, analyzed, endReason>>

\* open(CSV_INPUT) / csv.DictReader raise: nothing catches it, the thread dies
startup_raise ==
    /\ pc = "startup"
    /\ pc' = "dead"
    /\ WorkerFrame
    /\ UNCHANGED <<buckets, done_pending, nrows, idx, row, scratch, leaked,
                   audio_file, bpm, bucketed, saved, tables, acquired, analyzed,
                   endReason>>

\* the rows are read
startup_rows ==
    /\ pc = "startup"
    /\ \E n \in 0..MaxRows : nrows' = n
    /\ idx' = 0
    /\ pc' = "loop"
    /\ WorkerFrame
    /\ UNCHANGED <<buckets, done_pending, row, scratch, leaked, audio_file, bpm,
                   bucketed, saved, tables, acquired, analyzed, endReason>>

\* for idx, row in enumerate(rows, 1): the sequence is exhausted
loop_exhausted ==
    /\ pc = "loop"
    /\ idx = nrows
    /\ endReason' = "exhausted"
    /\ pc' = "save"
    /\ WorkerFrame
    /\ UNCHANGED <<buckets, done_pending, nrows, idx, row, scratch, leaked,
                   audio_file, bpm, bucketed, saved, tables, acquired, analyzed>>

\* for idx, row in enumerate(rows, 1): if self.stop_flag: break
loop_next ==
    /\ pc = "loop"
    /\ idx < nrows
    /\ idx' = idx + 1
    /\ \E r \in RowsOf(variant) : row' = r
    /\ bpm' = NoBpm
    /\ IF StopRequested
       THEN /\ endReason' = "stop"
            /\ pc' = "save"
       ELSE /\ endReason' = endReason
            /\ pc' = IF variant = "audio" THEN "fields" ELSE "fullcheck"
    /\ WorkerFrame
    /\ UNCHANGED <<buckets, done_pending, nrows, scratch, leaked, audio_file,
                   bucketed, saved, tables, acquired, analyzed>>

\* reading the fields of the row; .strip() on a missing cell raises
\* AttributeError outside every try
fields ==
    /\ pc = "fields"
    /\ pc' = IF variant = "audio"
             THEN IF row.bv = NoneCell THEN "dead"
                  ELSE IF Strip(row.bv) = "" THEN "loop"
                  ELSE "fullcheck"
             ELSE IF row.bv = NoneCell \/ row.title = NoneCell THEN "dead"
                  ELSE IF Strip(row.title) = "" THEN "loop"
                  ELSE "search"
    /\ WorkerFrame
    /\ UNCHANGED <<buckets, done_pending, nrows, idx, row, scratch, leaked,
                   audio_file, bpm, bucketed, saved, tables, acquired, analyzed,
                   endReason>>

\* if self.all_buckets_full(): break
fullcheck ==
    /\ pc = "fullcheck"
    /\ IF all_buckets_full
       THEN /\ endReason' = "full"
            /\ pc' = "save"
       ELSE /\ endReason' = endReason
            /\ pc' = IF variant = "audio" THEN "mkdtemp" ELSE "fields"
    /\ WorkerFrame
    /\ UNCHANGED <<buckets, done_pending, nrows, idx, row, scratch, leaked,
                   audio_file, bpm, bucketed, saved, tables, acquired, analyzed>>

\* temp_dir = tempfile.mkdtemp(); audio_file = None; bucketed = False
mkdtemp ==
    /\ pc = "mkdtemp"
    /\ scratch' = "empty"
    /\ audio_file' = FALSE
    /\ bucketed' = FALSE
    /\ pc' = "download"
    /\ WorkerFrame
    /\ UNCHANGED <<buckets, done_pending, nrows, idx, row, leaked, bpm, saved,
                   tables, acquired, analyzed, endReason>>

\* tempfile.mkdtemp() raises OSError, outside the try
mkdtemp_raise ==
    /\ pc = "mkdtemp"
    /\ pc' = "dead"
    /\ WorkerFrame
    /\ UNCHANGED <<buckets, done_pending, nrows, idx, row, scratch, leaked,
                   audio_file, bpm, bucketed, saved, tables, acquired, analyzed,
                   endReason>>

\* audio_file = self.download_audio(bv, temp_dir): a wav path
download_audio ==
    /\ pc = "download"
    /\ acquired' = Append(acquired, idx)
    /\ audio_file' = TRUE
    /\ scratch' = "file"
    /\ pc' = "analyze"
    /\ WorkerFrame
    /\ UNCHANGED <<buckets, done_pending, nrows, idx, row, leaked, bpm, bucketed,
                   saved, tables, analyzed, endReason>>

\* a failed download ending the loop instead of continuing (sensitivity
\* variant)
download_audio_none_break ==
    /\ pc = "download"
    /\ acquired' = Append(acquired, idx)
    /\ audio_file' = FALSE
    /\ scratch' = "nodir"
    /\ endReason' = "exhausted"
    /\ pc' = "save"
    /\ WorkerFrame
    /\ UNCHANGED <<buckets, done_pending, nrows, idx, row, leaked, bpm, bucketed,
                   saved, tables, analyzed>>

\* download_audio returns None (no file, conversion failed, or an exception
\* it caught itself); partial files may stay in temp_dir; continue
download_audio_none ==
    /\ pc = "download"
    /\ acquired' = Append(acquired, idx)
    /\ audio_file' = FALSE
    /\ \E s \in {"empty", "file"} : scratch' = s
    /\ pc' = "finally"
    /\ WorkerFrame
    /\ UNCHANGED <<buckets, done_pending, nrows, idx, row, leaked, bpm, bucketed,
                   saved, tables, analyzed, endReason>>

\* bpm = self.analyze_bpm(audio_file): an estimate
analyze_bpm ==
    /\ pc = "analyze"
    /\ analyzed' = Append(analyzed, idx)
    /\ \E b \in Estimates : bpm' = b
    /\ pc' = "classify"
    /\ WorkerFrame
    /\ UNCHANGED <<buckets, done_pending, nrows, idx, row, scratch, leaked,
                   audio_file, bucketed, saved, tables, acquired, endReason>>

\* analyze_bpm caught an exception and returned None; continue
analyze_bpm_none ==
    /\ pc = "analyze"
    /\ analyzed' = Append(analyzed, idx)
    /\ pc' = "finally"
    /\ WorkerFrame
    /\ UNCHANGED <<buckets, done_pending, nrows, idx, row, scratch, leaked,
                   audio_file, bpm, bucketed, saved, tables, acquired, endReason>>

\* analyze_bpm never returns (see est_double on a candidate of 0)
analyze_bpm_hang ==
    /\ pc = "analyze"
    /\ analyzed' = Append(analyzed, idx)
    /\ pc' = "hung"
    /\ WorkerFrame
    /\ UNCHANGED <<buckets, done_pending, nrows, idx, row, scratch, leaked,
                   audio_file, bpm, bucketed, saved, tables, acquired, endReason>>

\* results = sp.search(...) returned a track
search ==
    /\ pc = "search"
    /\ acquired' = Append(acquired, idx)
    /\ pc' = "features"
    /\ WorkerFrame
    /\ UNCHANGED <<buckets, done_pending, nrows, idx, row, scratch, leaked,
                   audio_file, bpm, bucketed, saved, tables, analyzed, endReason>>

\* sp.search found nothing (continue) or raised (except Exception)
search_none ==
    /\ pc = "search"
    /\ acquired' = Append(acquired, idx)
    /\ pc' = "loop"
    /\ WorkerFrame
    /\ UNCHANGED <<buckets, done_pending, nrows, idx, row, scratch, leaked,
                   audio_file, bpm, bucketed, saved, tables, analyzed, endReason>>

\* features = sp.audio_features(track_id); bpm = round(features[0]["tempo"], 1)
audio_features ==
    /\ pc = "features"
    /\ analyzed' = Append(analyzed, idx)
    /\ \E b \in Estimates : bpm' = b
    /\ pc' = "classify"
    /\ WorkerFrame
    /\ UNCHANGED <<buckets, done_pending, nrows, idx, row, scratch, leaked,
                   audio_file, bucketed, saved, tables, acquired, endReason>>

\* no audio features (continue), or the call or the rounding raised
audio_features_none ==
    /\ pc = "features"
    /\ analyzed' = Append(analyzed, idx)
    /\ pc' = "loop"
    /\ WorkerFrame
    /\ UNCHANGED <<buckets, done_pending, nrows, idx, row, scratch, leaked,
                   audio_file, bpm, bucketed, saved, tables, acquired, endReason>>

\* the entry appended for the current row
Entry == [idx |-> idx, bv |-> Strip(row.bv), bpm |-> bpm]

\* a full bucket dropping its oldest entry for the new one (sensitivity
\* variant)
SkipFull_displace(color) == [buckets EXCEPT ![color] = Append(Tail(@), Entry)]

\* the target bucket is full: continue, the buckets stay as they are
SkipFull(color) == buckets

\* bucket["songs"].append([rank, bv, song_name, artist, singer, bpm])
Accept(color) == [buckets EXCEPT ![color] = Append(@, Entry)]

\* color = self.classify_bpm(bpm); capacity check; append

classify ==
    /\ pc = "classify"
    /\ LET color == classify_bpm(bpm) IN
       IF BucketFull(color)
       THEN /\ buckets' = SkipFull(color)
            /\ bucketed' = bucketed
            /\ pc' = IF variant = "audio" THEN "finally" ELSE "loop"
       ELSE /\ buckets' = Accept(color)
            /\ bucketed' = (variant = "audio")
            /\ pc' = IF variant = "audio" THEN "move" ELSE "loop"
    /\ WorkerFrame
    /\ UNCHANGED <<done_pending, nrows, idx, row, scratch, leaked, audio_file,
                   bpm, saved, tables, acquired, analyzed, endReason>>

\* os.makedirs, shutil.move(audio_file, dest_path); audio_file = None
move ==
    /\ pc = "move"
    /\ scratch' = "empty"
    /\ audio_file' = FALSE
    /\ pc' = "sleep"
    /\ WorkerFrame
    /\ UNCHANGED <<buckets, done_pending, nrows, idx, row, leaked, bpm, bucketed,
                   saved, tables, acquired, analyzed, endReason>>

\* makedirs, re.sub or shutil.move raises: except Exception, then finally
move_raise ==
    /\ pc = "move"
    /\ pc' = "finally"
    /\ WorkerFrame
    /\ UNCHANGED <<buckets, done_pending, nrows, idx, row, scratch, leaked,
                   audio_file, bpm, bucketed, saved, tables, acquired, analyzed,
                   endReason>>

\* time.sleep(random.uniform(SLEEP_MIN, SLEEP_MAX))
sleep ==
    /\ pc = "sleep"
    /\ pc' = "finally"
    /\ WorkerFrame
    /\ UNCHANGED <<buckets, done_pending, nrows, idx, row, scratch, leaked,
                   audio_file, bpm, bucketed, saved, tables, acquired, analyzed,
                   endReason>>

\* finally: remove the files of temp_dir and temp_dir itself
finally ==
    /\ pc = "finally"
    /\ scratch' = "nodir"
    /\ pc' = "loop"
    /\ WorkerFrame
    /\ UNCHANGED <<buckets, done_pending, nrows, idx, row, leaked, audio_file,
                   bpm, bucketed, saved, tables, acquired, analyzed, endReason>>

\* finally: os.remove / os.rmdir raise OSError, which is swallowed; temp_dir
\* stays on disk
finally_oserror ==
    /\ pc = "finally"
    /\ scratch' = "nodir"
    /\ leaked' = TRUE
    /\ pc' = "loop"
    /\ WorkerFrame
    /\ UNCHANGED <<buckets, done_pending, nrows, idx, row, audio_file, bpm,
                   bucketed, saved, tables, acquired, analyzed, endReason>>

\* a writer that takes the first song for the header (sensitivity variant)
TableRows_tail(name) ==
    IF buckets[name] = <<>> THEN <<>> ELSE Tail(buckets[name])

\* open(output_path, "w"); for song in b["songs"]: writer.writerow(song)
TableRows(name) == buckets[name]

\* for name in ["BLUE", "GREEN", "RED"]: self.save_bucket_csv(name)
save_bucket_csv ==
    /\ pc = "save"
    /\ LET name == BucketNames[saved + 1] IN
       tables' = [tables EXCEPT ![name] = [kind |-> "run", rows |-> TableRows(name)]]
    /\ saved' = saved + 1
    /\ pc' = IF saved + 1 = Len(BucketNames) THEN "finish" ELSE "save"
    /\ WorkerFrame
    /\ UNCHANGED <<buckets, done_pending, nrows, idx, row, scratch, leaked,
                   audio_file, bpm, bucketed, acquired, analyzed, endReason>>

\* os.makedirs / open / write raise in save_bucket_csv: nothing catches it
save_bucket_csv_raise ==
    /\ pc = "save"
    /\ pc' = "dead"
    /\ WorkerFrame
    /\ UNCHANGED <<buckets, done_pending, nrows, idx, row, scratch, leaked,
                   audio_file, bpm, bucketed, saved, tables, acquired, analyzed,
                   endReason>>

\* self.root.after(0, _done) / self._reset_buttons(); the thread ends
finish ==
    /\ pc = "finish"
    /\ done_pending' = TRUE
    /\ pc' = "none"
    /\ WorkerFrame
    /\ UNCHANGED <<buckets, nrows, idx, row, scratch, leaked, audio_file, bpm,
                   bucketed, saved, tables, acquired, analyzed, endReason>>

run_classifier ==
    \/ startup_return
    \/ startup_raise
    \/ startup_rows
    \/ loop_exhausted
    \/ loop_next
    \/ fields
    \/ fullcheck
    \/ mkdtemp
    \/ mkdtemp_raise
    \/ download_audio
    \/ download_audio_none
    \/ analyze_bpm
    \/ analyze_bpm_none
    \/ analyze_bpm_hang
    \/ search
    \/ search_none
    \/ audio_features
    \/ audio_features_none
    \/ classify
    \/ move
    \/ move_raise
    \/ sleep
    \/ finally
    \/ finally_oserror
    \/ save_bucket_csv
    \/ save_bucket_csv_raise
    \/ finish

Next ==
    \/ start
    \/ stop
    \/ Done_callback
    \/ run_classifier

Spec == Init /\ [][Next]_vars

\* ------------------------------------------------------------------------
\* analyze_bpm (SpecEst)
\* ------------------------------------------------------------------------
\* A tempo is a float.  Halving and doubling a float are exact, so a tempo is
\* kept as the dyadic rational n / 2^e BPM with n odd or e = 0.
RECURSIVE Pow2(_)
Pow2(e) == IF e = 0 THEN 1 ELSE 2 * Pow2(e - 1)

RECURSIVE Reduce(_)
Reduce(v) ==
    IF v.e > 0 /\ v.n % 2 = 0
    THEN Reduce([n |-> v.n \div 2, e |-> v.e - 1])
    ELSE v

Bpm(k) == [n |-> k, e |-> 0]

\* k + 1/2 BPM
BpmHalf(k) == [n |-> 2 * k + 1, e |-> 1]

\* comparisons of a tempo with an integer and with a tempo
Gt(v, k) == v.n > k * Pow2(v.e)

Lt(v, k) == v.n < k * Pow2(v.e)

Between(lo, v, hi) == ~Lt(v, lo) /\ ~Gt(v, hi)

Less(a, b) == a.n * Pow2(b.e) < b.n * Pow2(a.e)

\* bpm /= 2
Halve(v) == Reduce([n |-> v.n, e |-> v.e + 1])

\* bpm *= 2
Double(v) == Reduce([n |-> 2 * v.n, e |-> v.e])

\* (a + b) / 2
Mean(a, b) ==
    Reduce([n |-> a.n * Pow2(b.e) + b.n * Pow2(a.e), e |-> a.e + b.e + 1])

Min2(a, b) == IF Less(b, a) THEN b ELSE a

Max2(a, b) == IF Less(b, a) THEN a ELSE b

\* np.median of one, two or three values
Median(s) ==
    IF Len(s) = 1 THEN s[1]
    ELSE IF Len(s) = 2 THEN Mean(s[1], s[2])
    ELSE Max2(Min2(s[1], s[2]), Min2(Max2(s[1], s[2]), s[3]))

\* round(x, 1): the nearest multiple of 0.1, ties to the even one; in tenths
Round1(v) ==
    LET d == Pow2(v.e)
        q == (10 * v.n) \div d
        r == (10 * v.n) % d
    IN  IF 2 * r < d THEN q
        ELSE IF 2 * r > d THEN q + 1
        ELSE IF q % 2 = 0 THEN q ELSE q + 1

\* constants of analyze_bpm
SampleRate == 22050

segment_dur == 20

segment_samples == segment_dur * SampleRate

MinSegmentSeconds == 5

OctaveHigh == 210

OctaveLow == 70

AmbiguousLow == 95

AmbiguousHigh == 120

AcceptLow == 130

AcceptHigh == 200

\* positions of the analysis windows, in percent of the signal
Positions(total_samples) ==
    IF total_samples >= 60 * SampleRate THEN <<25, 50, 75>>
    ELSE IF total_samples >= 30 * SampleRate THEN <<33, 67>>
    ELSE <<50>>

\* center, start, end of the window at position pos
WindowStart(total_samples, pos) ==
    LET center == (total_samples * pos) \div 100
        s == center - segment_samples \div 2
    IN  IF s > 0 THEN s ELSE 0

WindowEnd(total_samples, pos) ==
    LET e == WindowStart(total_samples, pos) + segment_samples
    IN  IF e < total_samples THEN e ELSE total_samples

\* a loop that keeps every window (sensitivity variant)
TooShort_never(total_samples, pos) == FALSE

\* len(segment) < sr * 5: continue
TooShort(total_samples, pos) ==
    WindowEnd(total_samples, pos) - WindowStart(total_samples, pos)
        < SampleRate * MinSegmentSeconds

\* signal lengths (samples): 3 s, 5 s, 30 s, 60 s and one sample less
Lengths == {3 * SampleRate, 5 * SampleRate - 1, 5 * SampleRate,
            30 * SampleRate - 1, 30 * SampleRate,
            60 * SampleRate - 1, 60 * SampleRate}

\* tempi librosa.feature.tempo reports with start_bpm = 140
Tempos == {BpmHalf(17), Bpm(95), Bpm(100), Bpm(105), Bpm(120), Bpm(242),
           Bpm(430)}

\* tempi librosa.beat.beat_track reports; 0 when it detects no onset
FallbackTempos == {Bpm(0), BpmHalf(17), Bpm(105), Bpm(430)}

\* tempi librosa.feature.tempo reports with start_bpm = 2 * median_bpm
DoubleTempos == {Bpm(65), Bpm(130), Bpm(180), Bpm(200), Bpm(210), Bpm(402)}

NoTempo == [n |-> -1, e |-> 0]

EstCall ==
    [pc |-> "load", total_samples |-> 0, positions |-> <<>>, k |-> 1,
     candidates |-> <<>>, corrected |-> <<>>, b |-> NoTempo,
     provisional |-> NoTempo, median_bpm |-> NoTempo,
     double_candidates |-> <<>>, dc |-> <<>>, double_median |-> NoTempo,
     result |-> NoBpm]

InitEst ==
    /\ CtlInit
    /\ variant = "audio"
    /\ est = EstCall
    /\ cls = ClsIdle

EstFrame == UNCHANGED <<ctlVars, cls>>

\* y_full, sr = librosa.load(...); total_samples; y_percussive; positions
est_load ==
    /\ est.pc = "load"
    /\ \E len \in Lengths :
         est' = [est EXCEPT !.pc = "segments", !.total_samples = len,
                            !.positions = Positions(len), !.k = 1]
    /\ EstFrame

\* any exception inside the try: log, return None
est_except ==
    /\ est.pc \in {"load", "segments", "dsegments"}
    /\ est' = [est EXCEPT !.pc = "returned", !.result = NoBpm]
    /\ EstFrame

\* for pos in positions: a window shorter than 5 s is skipped
est_segment_skip ==
    /\ est.pc = "segments"
    /\ est.k <= Len(est.positions)
    /\ TooShort(est.total_samples, est.positions[est.k])
    /\ est' = [est EXCEPT !.k = @ + 1]
    /\ EstFrame

\* for pos in positions: candidates.append(bpm_val)
est_segment ==
    /\ est.pc = "segments"
    /\ est.k <= Len(est.positions)
    /\ ~TooShort(est.total_samples, est.positions[est.k])
    /\ \E t \in Tempos :
         est' = [est EXCEPT !.k = @ + 1, !.candidates = Append(@, t)]
    /\ EstFrame

\* if not candidates: candidates = [beat_track tempo]
est_fallback ==
    /\ est.pc = "segments"
    /\ est.k > Len(est.positions)
    /\ est.candidates = <<>>
    /\ \E t \in FallbackTempos :
         est' = [est EXCEPT !.candidates = <<t>>, !.pc = "halve", !.k = 1,
                            !.b = t]
    /\ EstFrame

\* for bpm in candidates: first candidate
est_correct_start ==
    /\ est.pc = "segments"
    /\ est.k > Len(est.positions)
    /\ est.candidates # <<>>
    /\ est' = [est EXCEPT !.pc = "halve", !.k = 1, !.b = est.candidates[1]]
    /\ EstFrame

\* the list the octave correction reads and the list it appends to
Normalizing == est.pc \in {"halve", "double", "dhalve", "ddouble"}

SecondPass == est.pc \in {"dhalve", "ddouble"}

InHalve == est.pc \in {"halve", "dhalve"}

\* bpm > 210
HalveCond(b) == Gt(b, OctaveHigh)

\* doubling loop with a lower bound of 140 (sensitivity variant)
DoubleCond_high(b) == Lt(b, 2 * OctaveLow)

\* bpm < 70
DoubleCond(b) == Lt(b, OctaveLow)

\* the two loops of the octave correction applied to one value
RECURSIVE OctaveHalve(_)
OctaveHalve(v) == IF HalveCond(v) THEN OctaveHalve(Halve(v)) ELSE v

RECURSIVE OctaveDouble(_)
OctaveDouble(v) == IF DoubleCond(v) THEN OctaveDouble(Double(v)) ELSE v

OctaveNormalize(v) == OctaveDouble(OctaveHalve(v))

\* while bpm > 210: bpm /= 2
est_halve ==
    /\ InHalve
    /\ HalveCond(est.b)
    /\ est' = [est EXCEPT !.b = Halve(@)]
    /\ EstFrame

\* while bpm < 70: bpm *= 2
est_double ==
    /\ Normalizing
    /\ InHalve => ~HalveCond(est.b)
    /\ DoubleCond(est.b)
    /\ est' = [est EXCEPT !.b = Double(@),
                          !.pc = IF SecondPass THEN "ddouble" ELSE "double"]
    /\ EstFrame

\* corrected.append(bpm) / dc.append(b); next candidate or the median
est_append ==
    /\ Normalizing
    /\ InHalve => ~HalveCond(est.b)
    /\ ~DoubleCond(est.b)
    /\ LET src == IF SecondPass THEN est.double_candidates ELSE est.candidates
           more == est.k < Len(src)
       IN  IF SecondPass
           THEN est' = [est EXCEPT !.dc = Append(@, est.b),
                                   !.k = @ + 1,
                                   !.b = IF more THEN src[est.k + 1] ELSE NoTempo,
                                   !.pc = IF more THEN "dhalve" ELSE "dmedian"]
           ELSE est' = [est EXCEPT !.corrected = Append(@, est.b),
                                   !.k = @ + 1,
                                   !.b = IF more THEN src[est.k + 1] ELSE NoTempo,
                                   !.pc = IF more THEN "halve" ELSE "median"]
    /\ EstFrame

\* median_bpm = float(np.median(corrected)); if 95 <= median_bpm <= 120
Ambiguous(m) == Between(AmbiguousLow, m, AmbiguousHigh)

est_median ==
    /\ est.pc = "median"
    /\ LET m == Median(est.corrected) IN
       est' = [est EXCEPT !.median_bpm = m, !.provisional = m, !.k = 1,
                          !.pc = IF Ambiguous(m) THEN "dsegments" ELSE "round"]
    /\ EstFrame

\* second pass, for pos in positions: a short window is skipped
est_dsegment_skip ==
    /\ est.pc = "dsegments"
    /\ est.k <= Len(est.positions)
    /\ TooShort(est.total_samples, est.positions[est.k])
    /\ est' = [est EXCEPT !.k = @ + 1]
    /\ EstFrame

\* second pass: double_candidates.append(tempo2)
est_dsegment ==
    /\ est.pc = "dsegments"
    /\ est.k <= Len(est.positions)
    /\ ~TooShort(est.total_samples, est.positions[est.k])
    /\ \E t \in DoubleTempos :
         est' = [est EXCEPT !.k = @ + 1, !.double_candidates = Append(@, t)]
    /\ EstFrame

\* if double_candidates: normalise them; otherwise keep median_bpm
est_dcorrect_start ==
    /\ est.pc = "dsegments"
    /\ est.k > Len(est.positions)
    /\ IF est.double_candidates # <<>>
       THEN est' = [est EXCEPT !.pc = "dhalve", !.k = 1,
                               !.b = est.double_candidates[1]]
       ELSE est' = [est EXCEPT !.pc = "round"]
    /\ EstFrame

\* double_median = float(np.median(dc)); replace median_bpm when accepted
\* acceptance band reaching up to 210 (sensitivity variant)
Accepted_wide(m) == Between(AcceptLow, m, OctaveHigh)

\* 130 <= double_median <= 200
Accepted(m) == Between(AcceptLow, m, AcceptHigh)

est_dmedian ==
    /\ est.pc = "dmedian"
    /\ LET dm == Median(est.dc) IN
       est' = [est EXCEPT !.double_median = dm,
                          !.median_bpm = IF Accepted(dm) THEN dm ELSE @,
                          !.pc = "round"]
    /\ EstFrame

\* return round(median_bpm, 1)
est_return ==
    /\ est.pc = "round"
    /\ est' = [est EXCEPT !.result = Round1(est.median_bpm), !.pc = "returned"]
    /\ EstFrame

NextEst ==
    \/ est_load
    \/ est_except
    \/ est_segment_skip
    \/ est_segment
    \/ est_fallback
    \/ est_correct_start
    \/ est_halve
    \/ est_double
    \/ est_append
    \/ est_median
    \/ est_dsegment_skip
    \/ est_dsegment
    \/ est_dcorrect_start
    \/ est_dmedian
    \/ est_return

SpecEst == InitEst /\ [][NextEst]_vars

\* analyze_bpm runs on the worker thread, which keeps executing
FairSpecEst == SpecEst /\ WF_vars(NextEst)

\* ------------------------------------------------------------------------
\* classify_bpm (SpecClassify)
\* ------------------------------------------------------------------------
\* largest BPM value classified
MaxBpm == 250

InitClassify ==
    /\ CtlInit
    /\ variant = "audio"
    /\ est = EstIdle
    /\ \E b \in 0..Tenths(MaxBpm) : cls = [pc |-> "call", bpm |-> b, color |-> ""]

cls_classify ==
    /\ cls.pc = "call"
    /\ cls' = [cls EXCEPT !.pc = "returned", !.color = classify_bpm(cls.bpm)]
    /\ UNCHANGED <<ctlVars, est>>

NextClassify == cls_classify

SpecClassify == InitClassify /\ [][NextClassify]_vars

\* ------------------------------------------------------------------------
\* Properties
\* ------------------------------------------------------------------------
\* the band of a BPM value (tenths) as the specification states it
Band(b) == IF b < 1000 THEN "BLUE" ELSE IF b <= 1400 THEN "GREEN" ELSE "RED"

TotalAccepted == Len(buckets["BLUE"]) + Len(buckets["GREEN"]) + Len(buckets["RED"])

\* the entries of all buckets
Accepted_entries == UNION {{buckets[c][i] : i \in 1..Len(buckets[c])} : c \in Colors}

\* C1: in every reachable state each bucket holds at most its capacity, and
\* the three buckets together at most 3 * capacity
C1_Capacity ==
    /\ \A c \in Colors : Len(buckets[c]) <= BUCKET_SIZE
    /\ TotalAccepted <= 3 * BUCKET_SIZE

\* a descriptor reaches the capacity check of a bucket that is at capacity
C1_Witness ==
    /\ pc = "classify"
    /\ Len(buckets[Band(bpm)]) = BUCKET_SIZE

\* C2: once all three buckets are at capacity the run halts at the start of
\* the next iteration: whenever the worker is at the head of the loop with
\* all buckets full, the iteration it comes from is the one that filled the
\* last bucket (no iteration after it ran to its end)
C2_HaltsAtNextIteration ==
    (pc = "loop" /\ all_buckets_full) =>
        \E e \in Accepted_entries : e.idx = idx

\* C2, the part that holds: with all buckets at capacity no acquisition and
\* no analysis is started any more
C2_NoAcquisitionWhenFull ==
    [][(running /\ all_buckets_full) =>
         (acquired' = acquired /\ analyzed' = analyzed)]_vars

\* C3: classify_bpm returns BLUE below 100, GREEN from 100 to 140 (both
\* included) and RED above 140, for every BPM value
C3_ClassifyBands ==
    cls.pc = "returned" =>
        /\ cls.color \in Colors
        /\ cls.bpm < 1000 => cls.color = "BLUE"
        /\ (1000 <= cls.bpm /\ cls.bpm <= 1400) => cls.color = "GREEN"
        /\ cls.bpm > 1400 => cls.color = "RED"
        /\ cls.bpm \in {1000, 1400} => cls.color = "GREEN"

\* the upper boundary value was classified
C3_Witness ==
    /\ cls.pc = "returned"
    /\ cls.bpm = 1400
    /\ cls.color = "GREEN"

\* C4: octave normalization of a positive candidate ends, its result lies
\* in [70, 210], and normalizing the result again returns it unchanged
InOctaveRange(v) == Between(70, v, 210)

NormalizedOk(raw, out) ==
    \A i \in 1..Len(out) :
        raw[i].n > 0 =>
            /\ InOctaveRange(out[i])
            /\ OctaveNormalize(out[i]) = out[i]
            /\ OctaveNormalize(raw[i]) = out[i]

C4_OctaveNormalization ==
    /\ [](NormalizedOk(est.candidates, est.corrected)
          /\ NormalizedOk(est.double_candidates, est.dc))
    /\ (Normalizing /\ est.b.n > 0) ~> ~Normalizing

\* a candidate that was halved (430 -> 107.5) and one that was doubled twice
\* (17.5 -> 70) have been normalized
C4_Witness ==
    /\ Len(est.corrected) = 3
    /\ est.candidates[1] = Bpm(430)
    /\ est.corrected[1] = BpmHalf(107)
    /\ est.candidates[2] = BpmHalf(17)
    /\ est.corrected[2] = Bpm(70)

\* C5: the second pass runs only when the provisional median lies in
\* [95, 120]; its normalized median replaces the estimate only when it lies
\* in [130, 200]; otherwise the estimate is the provisional median
NormalizedList(raw) == [i \in 1..Len(raw) |-> OctaveNormalize(raw[i])]

C5_Disambiguation ==
    (est.pc \in {"round", "returned"} /\ est.provisional # NoTempo) =>
        LET applied == est.double_candidates # <<>>
            replaced == applied /\ Between(130, est.double_median, 200)
        IN  /\ applied => Between(95, est.provisional, 120)
            /\ (est.pc = "round" /\ applied) =>
                   est.double_median = Median(NormalizedList(est.double_candidates))
            /\ (est.pc = "round" \/ est.result # NoBpm) =>
                   est.median_bpm = IF replaced THEN est.double_median
                                    ELSE est.provisional
            /\ (est.result # NoBpm /\ est.provisional = Bpm(105)
                    /\ est.double_median = Bpm(210)) => est.result = 1050
            /\ (est.result # NoBpm /\ est.provisional = Bpm(100)
                    /\ est.double_median = Bpm(180)) => est.result = 1800
            /\ (est.result # NoBpm /\ ~replaced) =>
                   est.result = Round1(est.provisional)

\* provisional median 100, second-pass median 180: the estimate becomes 180
C5_Witness ==
    /\ est.pc = "returned"
    /\ est.provisional = Bpm(100)
    /\ est.double_median = Bpm(180)
    /\ est.result = 1800

\* C6: a failed acquisition or a failed estimation appends nothing, leaves
\* every bucket unchanged, and the worker goes on to the next descriptor
C6_FailureSkips ==
    [][/\ (pc = "download" /\ pc' # pc /\ ~audio_file') =>
              (pc' = "finally" /\ buckets' = buckets /\ endReason' = "")
       /\ (pc = "analyze" /\ pc' \notin {"analyze", "hung"} /\ bpm' = NoBpm) =>
              (pc' = "finally" /\ buckets' = buckets /\ endReason' = "")
       /\ (pc = "finally" /\ pc' # pc) =>
              (pc' = "loop" /\ buckets' = buckets /\ idx' = idx /\ endReason' = "")
       /\ (pc = "search" /\ pc' \notin {"search", "features"}) =>
              (pc' = "loop" /\ buckets' = buckets /\ idx' = idx /\ endReason' = "")
       /\ (pc = "features" /\ pc' # pc /\ bpm' = NoBpm) =>
              (pc' = "loop" /\ buckets' = buckets /\ idx' = idx /\ endReason' = "")
      ]_vars

\* three descriptors, acquisition failed for the second: the first and the
\* third are in the buckets and the loop ran to the end of the rows
C6_Witness ==
    /\ variant = "audio"
    /\ nrows = 3
    /\ acquired = <<1, 2, 3>>
    /\ analyzed = <<1, 3>>
    /\ {e.idx : e \in Accepted_entries} = {1, 3}
    /\ endReason = "exhausted"

\* C7: no failure raised while one descriptor is handled ends the loop or
\* the worker: the worker thread never dies inside the descriptor loop
C7_NoFatalTrackFailure ==
    ~(pc = "dead" /\ idx >= 1 /\ endReason = "")

\* C8: the stop flag is read only at the start of an iteration: an iteration
\* that starts with the flag set ends the loop without acquisition, analysis
\* or append; nothing else ends the loop by stop; stop() itself leaves the
\* worker and the buckets alone; the flag stays set for the rest of the run
C8_StopPolledAtIterationStart ==
    [][/\ (stop_flag /\ pc = "loop" /\ pc' # pc) =>
              (pc' = "save" /\ acquired' = acquired /\ analyzed' = analyzed
                  /\ buckets' = buckets)
       /\ (endReason' = "stop" /\ endReason # "stop") =>
              (pc = "loop" /\ stop_flag)
       /\ (stop_flag' /\ ~stop_flag) =>
              (pc' = pc /\ buckets' = buckets /\ acquired' = acquired
                  /\ analyzed' = analyzed /\ endReason' = endReason)
       /\ (stop_flag /\ ~stop_flag') => ~running
      ]_vars

\* stop was requested while descriptor idx - 1 was handled: that descriptor
\* was completed and accepted, and the next iteration ended the run
C8_Witness ==
    /\ endReason = "stop"
    /\ idx >= 2
    /\ acquired # <<>>
    /\ acquired[Len(acquired)] = idx - 1
    /\ \E e \in Accepted_entries : e.idx = idx - 1

\* C9: a descriptor whose band's bucket is at capacity is skipped and every
\* bucket stays exactly as it was
C9_FullBucketSkips ==
    [][(pc = "classify" /\ pc' # pc /\ Len(buckets[Band(bpm)]) >= BUCKET_SIZE) =>
           (buckets' = buckets /\ pc' \in {"finally", "loop"})]_vars

\* a descriptor was skipped because its bucket was at capacity
C9_Witness ==
    /\ pc \in {"finally", "loop"}
    /\ bpm # NoBpm
    /\ Len(buckets[Band(bpm)]) = BUCKET_SIZE
    /\ \A e \in Accepted_entries : e.idx # idx

\* C10: during a run every step leaves each bucket unchanged or extends one
\* bucket by one entry at its end
Extends(old, new) ==
    /\ Len(new) = Len(old) + 1
    /\ SubSeq(new, 1, Len(old)) = old

NotWritten(c) == tables[c].kind \in {"absent", "old"}

LoopEnded == endReason \in {"exhausted", "full", "stop"}

EmptyIdentifier == row.bv \in {"", " ", NoneCell}

C12_EmptyIdentifierSkipped ==
    (idx >= 1 /\ endReason = "" /\ EmptyIdentifier) =>
        pc \in {"loop", "fields", "fullcheck"}

\* C13 as stated: only the worker ever changes bucket contents; no handler
\* of the UI thread does
C13_OnlyWorkerWrites ==
    [][buckets' # buckets => pc = "classify"]_vars

\* C13 amended: bucket contents change only by the worker's append during a
\* run, or by start() emptying the buckets while no run is in progress;
\* stop() and _done never change them
C13_SingleWriter ==
    [][buckets' # buckets =>
         \/ /\ running
            /\ pc = "classify"
            /\ pc' # "startup"
            /\ stop_flag' = stop_flag
            /\ \E c \in Colors : Extends(buckets[c], buckets'[c])
         \/ /\ ~running
            /\ pc' = "startup"
            /\ buckets' = [c \in Colors |-> <<>>]]_vars

\* start() has emptied the buckets for a run that follows a completed one
C13_Witness ==
    /\ pc = "startup"
    /\ running
    /\ \A c \in Colors : buckets[c] = <<>>
    /\ \A c \in Colors : tables[c].kind = "old"

\* C14: every call of analyze_bpm terminates, with an estimate or a failure,
\* whatever the signal length and the candidates, a candidate of 0 included
C14_EstimatorTerminates == <>(est.pc = "returned")

\* the row of the current iteration went through acquisition and estimation
Last(s) == IF s = <<>> THEN 0 ELSE s[Len(s)]

\* the consequences of the acceptance rule on the bucket contents: every
\* entry lies in its bucket's band, no row is entered twice, and each bucket
\* lists its entries in input order
C15_Consequences ==
    /\ \A c \in Colors : \A i \in 1..Len(buckets[c]) : Band(buckets[c][i].bpm) = c
    /\ \A c, d \in Colors : \A i \in 1..Len(buckets[c]) : \A j \in 1..Len(buckets[d]) :
           buckets[c][i].idx = buckets[d][j].idx => (c = d /\ i = j)
    /\ \A c \in Colors : \A i, j \in 1..Len(buckets[c]) :
           i < j => buckets[c][i].idx < buckets[c][j].idx

\* C15: a descriptor is appended, once and to the bucket classify_bpm(bpm) of
\* its estimate, exactly when the loop has reached its row (no stop, not all
\* buckets full), its identifier is non-empty, acquisition and estimation
\* succeeded and that bucket is below capacity; every entry then lies in its
\* bucket's band, no row is entered twice, and the entries are in input order
C15_AcceptanceRule ==
    /\ [][(buckets' # buckets /\ pc' # "startup") =>
             /\ pc = "classify"
             /\ endReason = ""
             /\ Strip(row.bv) # ""
             /\ Last(acquired) = idx
             /\ Last(analyzed) = idx
             /\ bpm # NoBpm
             /\ Len(buckets[Band(bpm)]) < BUCKET_SIZE
             /\ buckets' = [buckets EXCEPT ![Band(bpm)] = Append(@, Entry)]]_vars
    /\ [][(pc = "classify" /\ pc' # "classify" /\ Len(buckets[Band(bpm)]) < BUCKET_SIZE) =>
             buckets' # buckets]_vars
    /\ [](C15_Consequences)

\* the acceptance rule without the condition on the identifier
C15_RuleWithoutIdentifier ==
    /\ [][(buckets' # buckets /\ pc' # "startup") =>
             /\ pc = "classify"
             /\ endReason = ""
             /\ Last(acquired) = idx
             /\ Last(analyzed) = idx
             /\ bpm # NoBpm
             /\ Len(buckets[Band(bpm)]) < BUCKET_SIZE
             /\ buckets' = [buckets EXCEPT ![Band(bpm)] = Append(@, Entry)]]_vars
    /\ [][(pc = "classify" /\ pc' # "classify" /\ Len(buckets[Band(bpm)]) < BUCKET_SIZE) =>
             buckets' # buckets]_vars
    /\ [](C15_Consequences)

\* width in samples of the window at position i of the current call
WindowWidth(i) ==
    WindowEnd(est.total_samples, est.positions[i])
        - WindowStart(est.total_samples, est.positions[i])

\* the positions whose window is at least 5 s wide
Retained(upto) == {i \in 1..upto : WindowWidth(i) >= 5 * SampleRate}

\* the number of windows the signal length calls for
WindowCount ==
    IF est.total_samples >= 60 * SampleRate THEN 3
    ELSE IF est.total_samples >= 30 * SampleRate THEN 2
    ELSE 1

SegmentsDone == est.pc \in {"halve", "double", "median", "dsegments", "dhalve",
                            "ddouble", "dmedian", "round"}

\* C16: the signal length alone fixes the number of windows (3 from 60 s, 2
\* from 30 s, 1 below) and of candidates; every window lies inside the signal
\* and is at most 20 s wide; a window below 5 s yields no candidate; the
\* fallback runs exactly when no window was retained and yields one candidate,
\* so the median is never taken of an empty list
C16_Windows ==
    /\ [](est.pc \notin {"off", "load", "returned"} =>
            /\ Len(est.positions) = WindowCount
            /\ \A i \in 1..Len(est.positions) :
                 /\ 0 <= WindowStart(est.total_samples, est.positions[i])
                 /\ WindowStart(est.total_samples, est.positions[i])
                      <= WindowEnd(est.total_samples, est.positions[i])
                 /\ WindowEnd(est.total_samples, est.positions[i]) <= est.total_samples
                 /\ WindowWidth(i) <= 20 * SampleRate)
    /\ [](est.pc = "segments" =>
            Len(est.candidates) = Cardinality(Retained(est.k - 1)))
    /\ [](SegmentsDone =>
            /\ Len(est.candidates) = WindowCount
            /\ est.candidates # <<>>)
    /\ [](est.pc = "median" => est.corrected # <<>>)
    /\ [][(est.pc = "segments" /\ est'.pc = "halve") =>
            /\ (est'.candidates # est.candidates)
                 <=> (Retained(Len(est.positions)) = {})
            /\ (est'.candidates # est.candidates) => Len(est'.candidates) = 1]_vars

\* the median is taken of the single fallback candidate of a 3 s signal
C16_Witness ==
    /\ est.pc = "median"
    /\ est.total_samples = 3 * SampleRate
    /\ Retained(Len(est.positions)) = {}
    /\ Len(est.candidates) = 1
    /\ Len(est.corrected) = 1

\* the worker is not inside the try/finally of an iteration
OutsideIteration ==
    pc \in {"none", "startup", "loop", "fields", "fullcheck", "mkdtemp", "save",
            "finish", "dead"}

\* C17: whenever the worker is outside the try/finally of an iteration, no
\* scratch directory of an earlier iteration is left on disk, with or without
\* files; audio leaves the scratch directory only by the move of an entry
\* that was accepted
C17_ScratchScoped ==
    /\ [](OutsideIteration => (scratch = "nodir" /\ ~leaked))
    /\ [][(pc = "move" /\ pc' = "sleep") =>
             (bucketed /\ \E c \in Colors :
                 buckets[c] # <<>> /\ buckets[c][Len(buckets[c])].idx = idx)]_vars

\* the same without the removals that fail: the directory the iteration
\* works on is gone when the iteration ends
C17_ScratchReleasedUnlessRemovalFails ==
    /\ [](OutsideIteration => scratch = "nodir")
    /\ [][(pc = "finally" /\ pc' = "loop" /\ leaked' = leaked) =>
             scratch' = "nodir"]_vars
    /\ [][(pc = "move" /\ pc' = "sleep") =>
             (bucketed /\ \E c \in Colors :
                 buckets[c] # <<>> /\ buckets[c][Len(buckets[c])].idx = idx)]_vars

\* the row numbers a sequence of row numbers holds
Range(s) == {s[i] : i \in 1..Len(s)}

\* C18: a new run begins with empty buckets and a cleared stop flag before its
\* worker takes a step; a table written in a run holds only entries estimated
\* in that run; and the stop flag is only ever set by a stop() of the run in
\* progress, so a stop of the run before does not end the new one
C18_NoLeakBetweenRuns ==
    /\ [][(~running /\ running') =>
             /\ pc = "none"
             /\ pc' = "startup"
             /\ buckets' = [c \in Colors |-> <<>>]
             /\ stop_flag' = FALSE
             /\ stop_btn' = "normal"
             /\ \A c \in Colors : tables'[c].kind # "run"]_vars
    /\ [][(stop_flag' /\ ~stop_flag) =>
             (running /\ stop_btn = "normal" /\ stop_btn' = "disabled")]_vars
    /\ []((running /\ stop_flag) => stop_btn = "disabled")
    /\ [](endReason = "stop" => stop_flag)
    /\ [](pc = "startup" => (~stop_flag \/ stop_btn = "disabled"))
    /\ [](\A c \in Colors : tables[c].kind = "run" =>
             /\ tables[c].rows = buckets[c]
             /\ \A i \in 1..Len(tables[c].rows) :
                  tables[c].rows[i].idx \in Range(analyzed))

\* a second run, not stopped, has written its first table over the one the
\* run before left
C18_Witness ==
    /\ pc = "save"
    /\ saved = 1
    /\ endReason = "exhausted"
    /\ ~stop_flag
    /\ tables["BLUE"].kind = "run"
    /\ Len(tables["BLUE"].rows) = 1
    /\ tables["GREEN"].kind = "old"
    /\ tables["RED"].kind = "old"

\* a worker thread exists and has not ended
WorkerActive == pc \notin {"none", "dead"}

\* a step that spawns a worker thread
Spawns == pc' = "startup" /\ (pc # "startup" \/ running' # running)

\* what holds of the worker count and of start() during a run
C19_OneWorker ==
    /\ [](WorkerActive => running)
    /\ [](~running => (pc = "none" /\ ~done_pending))
    /\ [][Spawns => (~running /\ pc = "none")]_vars
    /\ [][(running /\ running') =>
             /\ stop_flag => stop_flag'
             /\ \A c \in Colors :
                  buckets'[c] = buckets[c] \/ Extends(buckets[c], buckets'[c])]_vars

\* the worker has finished its loop and written the three tables
TablesWritten ==
    /\ LoopEnded
    /\ saved = 3
    /\ \A c \in Colors : tables[c] = [kind |-> "run", rows |-> buckets[c]]

\* the worker returned at start-up, before reading a row
ReturnedAtStartup ==
    /\ endReason = ""
    /\ nrows = 0
    /\ idx = 0
    /\ saved = 0
    /\ \A c \in Colors : buckets[c] = <<>> /\ NotWritten(c)

\* C19: at most one worker is active; start() during a run spawns no worker
\* and resets neither the buckets nor the stop flag; running stays True until
\* the worker has finished its loop and written its output tables
C19_RunningUntilTablesWritten ==
    /\ C19_OneWorker
    /\ [][(running /\ ~running') => TablesWritten]_vars

\* C19 amended: as above, but running stays True until the worker has ended,
\* either after writing its output tables or by returning at start-up
\* without entering the loop
C19_RunningUntilWorkerEnded ==
    /\ C19_OneWorker
    /\ [][(running /\ ~running') =>
             /\ pc = "none"
             /\ done_pending
             /\ TablesWritten \/ ReturnedAtStartup]_vars

\* a run that followed a completed one has returned at start-up and the
\* controller is idle again
C19_Witness ==
    /\ ~running
    /\ pc = "none"
    /\ ReturnedAtStartup
    /\ \A c \in Colors : tables[c].kind = "old"

\* the worker thread ended on a failure while reading the input table or
\* while writing the output tables
EndedOnTableFailure ==
    /\ pc = "dead"
    /\ LoopEnded \/ (endReason = "" /\ idx = 0)

\* C20: however the worker ends, a failure while reading the input table or
\* writing the output tables included, the controller returns to idle: when
\* the worker has ended, _done is queued or has already run (running False,
\* start enabled, stop disabled)
C20_ReturnsToIdle ==
    /\ EndedOnTableFailure =>
          (done_pending \/ (~running /\ start_btn = "normal" /\ stop_btn = "disabled"))
    /\ (pc = "none" /\ ~done_pending) =>
          (~running /\ start_btn = "normal" /\ stop_btn = "disabled")

\* the ends of the worker that do return the controller to idle: after the
\* tables are written and after an early return at start-up, _done is queued,
\* and once it has run the controller is idle
C20_IdleAfterNormalEnd ==
    /\ (pc = "none" /\ ~done_pending) =>
          (~running /\ start_btn = "normal" /\ stop_btn = "disabled")
    /\ (pc = "none" /\ running) => done_pending

\* once the worker thread has died, no step brings the controller back to
\* idle: it stays dead and running stays True
C20_DeadStaysBusy ==
    [][(pc = "dead" /\ running) => (pc' = "dead" /\ running' /\ ~done_pending')]_vars

====
